---- MODULE Spec2Model ----
(***************************************************************************)
(* Workspace <-> object-store synchronisation (restore_workspace_r2.py,    *)
(* sync_workspace_r2.py): the staleness decision, the sequential and the   *)
(* thread-pool transfer loops, the counters and the rolling ETA tracker.   *)
(*                                                                         *)
(* Time is modelled at two resolutions: a local file's st_mtime is a raw   *)
(* value in "ticks" (TicksPerUnit ticks per datetime unit) and the code    *)
(* converts it with datetime.fromtimestamp, which rounds half-to-even to   *)
(* the datetime resolution; remote LastModified values are datetimes.      *)
(* An Optional value is a sequence of length 0 (None) or 1.                *)
(*                                                                         *)
(* The pod watchdog (pod_watchdog.py) is a second program over the same    *)
(* variables: its polling loop, the two timers it keeps and the            *)
(* termination requests it makes.                                          *)
(***************************************************************************)
EXTENDS Integers, Sequences, FiniteSets, TLC

\* ---- bounds of the model --------------------------------------------------
NumKeys == 3
MaxSize == 1
MaxTime == 2
TicksPerUnit == 2
MaxWorkers == 2
TwiceKeys == 2
MaxPages == 2
MaxWindow == 2
MaxAdds == 4
MaxRemaining == 2
MaxItems == 401
MaxClock == 3
MaxPods == 2

\* ---- program constants ----------------------------------------------------
LOG_EVERY == 200
DEFAULT_WORKERS == 4
ETA_WINDOWS == {10, 50, 200}
DEFAULT_IDLE_SECONDS == 600

Keys == 1..NumKeys
Sizes == 0..MaxSize
Times == 1..MaxTime
Ticks == 0..(MaxTime * TicksPerUnit)
\* time.monotonic() differences, in whole units.
Durations == {1}
None == <<>>
Some(x) == <<x>>

\* A path of the local tree / an object of the store.
AbsentFile == [exists |-> FALSE, size |-> 0, mtime |-> 0]
AbsentObject == [exists |-> FALSE, size |-> 0, time |-> None]
LocalDomain ==
    {AbsentFile} \cup [exists : {TRUE}, size : Sizes, mtime : Ticks]
RemoteDomain ==
    {AbsentObject}
        \cup [exists : {TRUE}, size : Sizes, time : {None} \cup {Some(t) : t \in Times}]

\* Exceptions a transfer call can raise, and "no exception".
NoExc == "none"
Excs == {"PermissionError"}

VARIABLES
    mode,        \* "pull" (restore_workspace) or "push" (sync_workspace)
    workers,     \* the workers argument of the pass function
    overwrite,   \* the force-overwrite request of the run
    clockSane,   \* environment: new timestamps are never older than existing ones
    headSane,    \* environment: head_object raises only for an absent object
    statErr,     \* environment: the keys whose local path cannot be stat'ed
    dirKeys,     \* environment: the store keys that end in "/"
    pages,       \* environment: the store's answer to each listing request
    failPage,    \* environment: the listing request that raises (0: none)
    token,       \* _list_objects: the continuation token held
    requests,    \* _list_objects: the pages requested so far
    localFiles,  \* the local tree: Keys -> LocalDomain
    remoteObjs,  \* the store: Keys -> RemoteDomain
    pc,          \* position of the orchestrator
    pass,        \* "first" or "second" run of the script
    prevSummary, \* counts the previous pass ended with (None in the first)
    objects,     \* pull: the objects kept from the listing
    total,       \* len(objects) / len(files)
    pending,     \* the tasks handed to the transfer loop, in submission order
    decided,     \* what the diff decided per key: "none", "transfer", "skip"
    tasks,       \* per task: state, outcome and what happened while it ran
    completed,   \* pool: finished futures not yet yielded, in completion order
    early,       \* pool: futures as_completed found finished when it was called
    cursor,      \* sequential loop: index of the next task
    processed,
    skipped,
    failed,
    transferred, \* downloaded / uploaded
    samples,     \* RollingEta._samples
    requested,   \* main: the worker count asked for (--workers and environment)
    etaAdded,    \* the tracker on its own: every duration passed to add()
    etaOut,      \* the tracker on its own: the last format() call and its result
    settings,    \* environment: where each connection parameter is set
    diag,        \* main: the SystemExit message of a run without configuration
    dirs,        \* the local tree: which directories above the files exist
    mk,          \* per task: where its Path.mkdir call stands
    statusLine,  \* the status line logged by the last loop iteration, if any
    notice,      \* the last message the pass logged before its loop
    now,         \* watchdog: time.time() at the last poll
    limits,      \* watchdog: idle_seconds and empty_queue_grace_seconds of the config
    idle_since,  \* watchdog: since when the pod is seen idle, or None
    empty_queue_since,  \* watchdog: since when the queue is seen empty, or None
    poll,        \* watchdog: what the last poll read and did (None before the first)
    idleRun,     \* history: first poll of the current run of enabled idle polls
    emptyRun,    \* history: first poll of the current run of enabled empty-queue polls
    disabledAt,  \* history: time of the last poll whose config had enabled false
    pods,        \* watchdog environment: the pods the API lists, in order
    env_pod_id,  \* watchdog environment: RUNPOD_POD_ID (None when not in the environment)
    round        \* watchdog: the termination round of the last poll (None without one)

vars ==
    << mode, workers, overwrite, clockSane, headSane, statErr, dirKeys, pages,
       failPage, token, requests, localFiles, remoteObjs, pc, pass,
       prevSummary, objects, total, pending, decided, tasks, completed, cursor,
       processed, skipped, failed, transferred, samples, early, requested,
       etaAdded, etaOut, settings, diag, dirs, mk, statusLine,
       notice, now, limits, idle_since, empty_queue_since, poll, idleRun,
       emptyRun, disabledAt, pods, env_pod_id, round >>

cfgVars == << settings, diag >>
dirVars == << dirs, mk >>
logVars == << statusLine, notice >>
wdVars ==
    << now, limits, idle_since, empty_queue_since, poll, idleRun, emptyRun,
       disabledAt, pods, env_pod_id, round >>
baseVars ==
    << mode, requested, workers, overwrite, clockSane, headSane, statErr, dirKeys, pages,
       failPage, cfgVars >>
envVars == << baseVars, wdVars >>
listVars == << token, requests >>
etaVars == << etaAdded, etaOut >>
fsVars == << localFiles, remoteObjs >>
counterVars == << processed, skipped, failed, transferred, samples >>
poolVars == << early >>

\* ---- pure functions -------------------------------------------------------

\* datetime.fromtimestamp(st_mtime): round half to even to the datetime unit.
FromTimestamp(t) ==
    LET q == t \div TicksPerUnit
        r == t % TicksPerUnit
    IN  IF 2 * r < TicksPerUnit THEN q
        ELSE IF 2 * r > TicksPerUnit THEN q + 1
        ELSE IF q % 2 = 0 THEN q ELSE q + 1

ShouldDownloadOrEqual(local, size, remote_time, ow) ==
    IF ow THEN TRUE
    ELSE IF ~local.exists THEN TRUE
    ELSE IF local.size # size THEN TRUE
    ELSE IF remote_time = None THEN FALSE
    ELSE FromTimestamp(local.mtime) <= remote_time[1]

ShouldDownloadNoOverwrite(local, size, remote_time, ow) ==
    IF ~local.exists THEN TRUE
    ELSE IF local.size # size THEN TRUE
    ELSE IF remote_time = None THEN FALSE
    ELSE FromTimestamp(local.mtime) < remote_time[1]

ShouldDownload(local, size, remote_time, ow) ==
    IF ow THEN TRUE
    ELSE IF ~local.exists THEN TRUE
    ELSE IF local.size # size THEN TRUE
    ELSE IF remote_time = None THEN FALSE
    ELSE FromTimestamp(local.mtime) < remote_time[1]

\* _head_object: the metadata, or None when the call raises (object absent or
\* any other failure).
HeadObject(obj, headOk) ==
    IF headOk /\ obj.exists
    THEN Some([ContentLength |-> obj.size, LastModified |-> obj.time])
    ELSE None

ShouldUploadOrEqual(local, remote_meta) ==
    IF remote_meta = None THEN TRUE
    ELSE IF local.size # remote_meta[1].ContentLength THEN TRUE
    ELSE IF remote_meta[1].LastModified = None THEN FALSE
    ELSE FromTimestamp(local.mtime) >= remote_meta[1].LastModified[1]

ShouldUploadNoTimeTransfers(local, remote_meta) ==
    IF remote_meta = None THEN TRUE
    ELSE IF local.size # remote_meta[1].ContentLength THEN TRUE
    ELSE IF remote_meta[1].LastModified = None THEN TRUE
    ELSE FromTimestamp(local.mtime) > remote_meta[1].LastModified[1]

ShouldUploadNeedsMeta(local, remote_meta) ==
    IF remote_meta = None THEN FALSE
    ELSE IF local.size # remote_meta[1].ContentLength THEN TRUE
    ELSE IF remote_meta[1].LastModified = None THEN FALSE
    ELSE FromTimestamp(local.mtime) > remote_meta[1].LastModified[1]

ShouldUpload(local, remote_meta) ==
    IF remote_meta = None THEN TRUE
    ELSE IF local.size # remote_meta[1].ContentLength THEN TRUE
    ELSE IF remote_meta[1].LastModified = None THEN FALSE
    ELSE FromTimestamp(local.mtime) > remote_meta[1].LastModified[1]

Decision(b) == IF b THEN "transfer" ELSE "skip"

\* str(exc)
StrExc(e) ==
    IF e = "PermissionError" THEN "[Errno 13] Permission denied"
    ELSE IF e = "FileExistsError" THEN "[Errno 17] File exists"
    ELSE IF e = "FileNotFoundError" THEN "[Errno 2] No such file or directory"
    ELSE "An error occurred when calling the operation"

\* RollingEta.add
TrackerAddDropsNewest(s, duration) ==
    [w \in DOMAIN s |->
        LET a == Append(s[w], duration)
        IN  IF Len(a) > w THEN SubSeq(a, 1, Len(a) - 1) ELSE a]

TrackerAdd(s, duration) ==
    [w \in DOMAIN s |->
        LET a == Append(s[w], duration)
        IN  IF Len(a) > w THEN Tail(a) ELSE a]

EmptySamples == [w \in ETA_WINDOWS |-> <<>>]

\* int(round(num / den)) for num >= 0, den > 0: round half to even.
PyRound(num, den) ==
    LET q == num \div den
        r == num % den
    IN  IF 2 * r < den THEN q
        ELSE IF 2 * r > den THEN q + 1
        ELSE IF q % 2 = 0 THEN q ELSE q + 1

\* _fmt_duration of the fraction num / den: "n/a" is <<>>, "H:MM:SS" is
\* <<H, MM, SS>> and "M:SS" is <<M, SS>>.
FmtDuration(num, den) ==
    IF num < 0 THEN <<>>
    ELSE LET seconds == PyRound(num, den)
             hours == seconds \div 3600
             rem == seconds % 3600
         IN  IF hours # 0 THEN << hours, rem \div 60, rem % 60 >>
             ELSE << rem \div 60, rem % 60 >>

RECURSIVE SeqSum(_)
SeqSum(q) ==
    IF q = <<>> THEN 0
    ELSE IF Len(q) = 1 THEN q[1]
    ELSE LET half == Len(q) \div 2
         IN  SeqSum(SubSeq(q, 1, half)) + SeqSum(SubSeq(q, half + 1, Len(q)))

\* The keys of S as a list in increasing order (listing / directory walk order).
RECURSIVE SortedSeq(_)
SortedSeq(S) ==
    IF S = {} THEN <<>>
    ELSE LET m == CHOOSE x \in S : \A y \in S : x <= y
         IN  <<m>> \o SortedSeq(S \ {m})

\* RollingEta.format: the fixed texts, or the parts joined by ", ", one
\* "w<window>(n=<count>)=<eta>" per window that has samples.
EtaParts(s, remaining) ==
    LET ws == SortedSeq({w \in DOMAIN s : s[w] # <<>>})
    IN  [i \in DOMAIN ws |->
            [window |-> ws[i], n |-> Len(s[ws[i]]),
             eta |-> FmtDuration(remaining * SeqSum(s[ws[i]]), Len(s[ws[i]]))]]

FormatZeroOnly(s, remaining) ==
    IF remaining = 0 THEN [text |-> "0s", parts |-> <<>>]
    ELSE IF EtaParts(s, remaining) = <<>> THEN [text |-> "n/a", parts |-> <<>>]
    ELSE [text |-> "parts", parts |-> EtaParts(s, remaining)]

Format(s, remaining) ==
    IF remaining <= 0 THEN [text |-> "0s", parts |-> <<>>]
    ELSE IF EtaParts(s, remaining) = <<>> THEN [text |-> "n/a", parts |-> <<>>]
    ELSE [text |-> "parts", parts |-> EtaParts(s, remaining)]

\* ---- the work of one task ---------------------------------------------------

\* Timestamps a successful transfer can leave on the copy it writes: the
\* newest under a sane clock, else the oldest or the newest.
Stamps == IF clockSane THEN {MaxTime} ELSE {1, MaxTime}

QueuedTask ==
    [state |-> "queued", runs |-> 0, yields |-> 0, raised |-> NoExc,
     headFailed |-> FALSE, status |-> "", err |-> None, elapsed |-> 0]

\* _download_one: the outcome tuple (status, err, elapsed) given what the
\* mkdir / download_file calls raised.
DownloadOneSwallows(exc, dur) ==
    [status |-> "downloaded", err |-> None, elapsed |-> dur]

DownloadOne(exc, dur) ==
    IF exc = NoExc
    THEN [status |-> "downloaded", err |-> None, elapsed |-> dur]
    ELSE [status |-> "failed", err |-> Some(StrExc(exc)), elapsed |-> dur]

\* _sync_file: head, decide, upload; the outcome tuple given whether the
\* stat of _should_upload raises (it is reached only with remote metadata) and
\* what upload_file raised (it is called only when the decision is to upload).
SyncFile(local, obj, headOk, statFails, exc, dur) ==
    IF statFails /\ HeadObject(obj, headOk) # None
    THEN [status |-> "failed", err |-> Some(StrExc("PermissionError")),
          elapsed |-> dur]
    ELSE IF ~ShouldUpload(local, HeadObject(obj, headOk))
    THEN [status |-> "skipped", err |-> None, elapsed |-> dur]
    ELSE IF exc = NoExc
    THEN [status |-> "uploaded", err |-> None, elapsed |-> dur]
    ELSE [status |-> "failed", err |-> Some(StrExc(exc)), elapsed |-> dur]

\* Everything one run of task body k produces: its outcome, what the
\* environment did to it, and the file / object it leaves behind.
Body(k, exc, stamp, dur, headOk) ==
    IF mode = "pull"
    THEN [out |-> DownloadOne(exc, dur),
          raised |-> exc,
          headFailed |-> FALSE,
          decision |-> decided[k],
          local |-> IF exc = NoExc
                    THEN [exists |-> TRUE, size |-> remoteObjs[k].size,
                          mtime |-> stamp * TicksPerUnit]
                    ELSE localFiles[k],
          remote |-> remoteObjs[k]]
    ELSE LET meta == HeadObject(remoteObjs[k], headOk)
             statFails == k \in statErr
             statRaised == statFails /\ meta # None
             up == ~statRaised /\ ShouldUpload(localFiles[k], meta)
         IN  [out |-> SyncFile(localFiles[k], remoteObjs[k], headOk, statFails,
                               exc, dur),
              raised |-> IF statRaised THEN "PermissionError"
                         ELSE IF up THEN exc ELSE NoExc,
              headFailed |-> ~headOk,
              decision |-> IF statRaised THEN "none" ELSE Decision(up),
              local |-> localFiles[k],
              remote |-> IF up /\ exc = NoExc
                         THEN [exists |-> TRUE, size |-> localFiles[k].size,
                               time |-> Some(stamp)]
                         ELSE remoteObjs[k]]

\* The environment's choices for one run of a task body.
BodyChoices(k) ==
    {Body(k, exc, stamp, dur, headOk) :
        exc \in Excs \cup {NoExc}, stamp \in Stamps, dur \in Durations,
        headOk \in IF mode = "pull" \/ headSane THEN {TRUE} ELSE BOOLEAN}

\* local_path.parent.mkdir(parents=True, exist_ok=True). The files of the
\* tree share their parent directory "inner", whose own parent is "outer";
\* the workspace root above them exists. Path.mkdir is not atomic: it calls
\* os.mkdir on the directory, on FileNotFoundError makes the parent (always
\* with exist_ok=True) and calls os.mkdir on the directory again, and on
\* another OSError re-raises unless exist_ok and the path is a directory.
Tree == {{}, {"outer"}, {"outer", "inner"}}

ExistOkOff == FALSE

ExistOk == TRUE

MkdirAt(at) == [at |-> at, raced |-> FALSE, err |-> NoExc]

MkdirOver(m) == m.at \in {"made", "raised"}

\* One os.mkdir call of a Path.mkdir that stands at m, on the tree ds.
OsMkdir(m, ds) ==
    LET exists(ok, then, raced) ==
            IF ok THEN [m EXCEPT !.at = then, !.raced = @ \/ raced]
            ELSE [m EXCEPT !.at = "raised", !.err = "FileExistsError"]
    IN  IF m.at = "first"
        THEN IF "inner" \in ds
             THEN [mk |-> exists(ExistOk, "made", FALSE), dirs |-> ds]
             ELSE IF "outer" \notin ds
             THEN [mk |-> [m EXCEPT !.at = "parent"], dirs |-> ds]
             ELSE [mk |-> [m EXCEPT !.at = "made"], dirs |-> ds \cup {"inner"}]
        ELSE IF m.at = "parent"
        THEN IF "outer" \in ds
             THEN [mk |-> exists(TRUE, "retry", TRUE), dirs |-> ds]
             ELSE [mk |-> [m EXCEPT !.at = "retry"], dirs |-> ds \cup {"outer"}]
        ELSE IF "inner" \in ds
             THEN [mk |-> exists(ExistOk, "made", TRUE), dirs |-> ds]
             ELSE IF "outer" \notin ds
             THEN [mk |-> [m EXCEPT !.at = "raised", !.err = "FileNotFoundError"],
                   dirs |-> ds]
             ELSE [mk |-> [m EXCEPT !.at = "made"], dirs |-> ds \cup {"inner"}]

\* The call run to its end without another thread in between.
RECURSIVE MkdirRun(_, _)
MkdirRun(m, ds) ==
    IF MkdirOver(m) THEN [mk |-> m, dirs |-> ds]
    ELSE LET r == OsMkdir(m, ds) IN MkdirRun(r.mk, r.dirs)

\* The runs of task body k once its mkdir ended in m: a mkdir that raised is
\* the exception of the body, which then calls nothing else.
TaskChoices(k, m) ==
    IF mode = "pull" /\ m.at = "raised"
    THEN {Body(k, m.err, stamp, dur, TRUE) : stamp \in Stamps, dur \in Durations}
    ELSE BodyChoices(k)

Ran(t, res, st) ==
    [t EXCEPT !.state = st, !.runs = @ + 1, !.raised = res.raised,
              !.headFailed = res.headFailed, !.status = res.out.status,
              !.err = res.out.err, !.elapsed = res.out.elapsed]

\* The aggregation of one outcome (restore 437-443, sync 267-275).
Counters ==
    [processed |-> processed, skipped |-> skipped, failed |-> failed,
     transferred |-> transferred, samples |-> samples]

AggregateForgetFailed(c, status, elapsed) ==
    IF status = "failed" THEN [c EXCEPT !.processed = @ + 1]
    ELSE IF status = "skipped"
    THEN [c EXCEPT !.processed = @ + 1, !.skipped = @ + 1]
    ELSE [c EXCEPT !.processed = @ + 1, !.transferred = @ + 1,
                   !.samples = TrackerAdd(@, elapsed)]

AggregateSampleAlways(c, status, elapsed) ==
    IF status = "failed"
    THEN [c EXCEPT !.processed = @ + 1, !.failed = @ + 1,
                   !.samples = TrackerAdd(@, elapsed)]
    ELSE IF status = "skipped"
    THEN [c EXCEPT !.processed = @ + 1, !.skipped = @ + 1]
    ELSE [c EXCEPT !.processed = @ + 1, !.transferred = @ + 1,
                   !.samples = TrackerAdd(@, elapsed)]

Aggregate(c, status, elapsed) ==
    IF status = "failed"
    THEN [c EXCEPT !.processed = @ + 1, !.failed = @ + 1]
    ELSE IF status = "skipped"
    THEN [c EXCEPT !.processed = @ + 1, !.skipped = @ + 1]
    ELSE [c EXCEPT !.processed = @ + 1, !.transferred = @ + 1,
                   !.samples = TrackerAdd(@, elapsed)]

\* What the body of a task does to the counters and the tracker of the pass:
\* _download_one and _sync_file take neither as an argument and return the
\* outcome tuple; the counters are locals of the pass function.
WorkerCountersAggregates(c, status, elapsed) == Aggregate(c, status, elapsed)

WorkerCounters(c, status, elapsed) == c

\* `if processed % LOG_EVERY == 0 or processed == len(pending):` (len(files)
\* in the push pass).
StatusDueEveryOnly(p, n) == p % LOG_EVERY = 0

StatusDue(p, n) == p % LOG_EVERY = 0 \/ p = n

\* The status line of an iteration that leaves the counters at c, out of n
\* items: None when none is logged. (The elapsed time is left out.)
StatusLine(c, n) ==
    IF StatusDue(c.processed, n)
    THEN LET remaining == IF n - c.processed > 0 THEN n - c.processed ELSE 0
         IN  Some([processed |-> c.processed, of |-> n,
                   transferred |-> c.transferred, skipped |-> c.skipped,
                   failed |-> c.failed, remaining |-> remaining,
                   eta |-> Format(c.samples, remaining)])
    ELSE None

SetCounters(c) ==
    /\ processed' = c.processed
    /\ skipped' = c.skipped
    /\ failed' = c.failed
    /\ transferred' = c.transferred
    /\ samples' = c.samples

\* main: the worker count taken from --workers, else from
\* AF_R2_WORKSPACE_WORKERS, else the default.
Asked(w) == [arg |-> Some(w), env |-> None]

Wanted(req) ==
    IF req.arg # None THEN req.arg[1]
    ELSE IF req.env # None THEN req.env[1]
    ELSE DEFAULT_WORKERS

\* workers = max(1, workers)
FloorNone(w) == w

Floor(w) == IF w < 1 THEN 1 ELSE w

\* `if workers <= 1:` selects the sequential loop.
SequentialOnlyBelowOne(w) == w <= 0

Sequential(w) == w <= 1

\* ThreadPoolExecutor(max_workers=workers)
PoolSizeOneMore(w) == w + 1

PoolSize(w) == w

\* `for ... in pending`: the loop moves to the next task.
NextCursorSkipsOne(c) == c + 2

NextCursor(c) == c + 1

SeqToSet(q) == {q[j] : j \in DOMAIN q}

\* The futures as_completed can yield next: any of those it found finished
\* at the call, and once they are all yielded the one that completed first.
YieldNextAnyFinished(e, q) == SeqToSet(q)

YieldNextNothing(e, q) == {}

YieldNext(e, q) ==
    IF e # {} THEN e
    ELSE IF q = <<>> THEN {} ELSE {Head(q)}

InFlight == {i \in DOMAIN tasks : tasks[i].state = "running"}
Queued == {i \in DOMAIN tasks : tasks[i].state = "queued"}
AllConsumedAfterFirst(ts) == \E i \in DOMAIN ts : ts[i].state = "consumed"

AllConsumed(ts) == \A i \in DOMAIN ts : ts[i].state = "consumed"

LoopEntry(w) == IF Sequential(w) THEN "seq" ELSE "pool"

\* What the pull pass logs after its diff, and where it goes from there.
DiffNotice(p) == IF p = <<>> THEN "up to date" ELSE "downloads pending"

AfterDiffAlwaysLoop(p, w) == LoopEntry(w)

AfterDiff(p, w) == IF p = <<>> THEN "done" ELSE LoopEntry(w)

\* ---- the watchdog's poll -----------------------------------------------------

\* What one poll reads: the flags of the configuration file (read again at
\* every poll), the experiment counts of the database (at most one kind of
\* experiment is present here) and the GPU probe.
Flags == [enabled : BOOLEAN, idle_enabled : BOOLEAN, queue_enabled : BOOLEAN]
Counts ==
    {c \in [running : 0..1, queued : 0..1, paused : 0..1] :
        c.running + c.queued + c.paused <= 1}

\* How a poll can go wrong. With an error the loop handles: "read" when the
\* experiment counts or the GPU probe raise (sqlite3.Error, OSError), before
\* the loop reads the clock; "round" when the termination round raises
\* (HTTPError, URLError, RuntimeError). With an error the loop does not
\* handle: "config" when the configuration file is not valid JSON or one of
\* its numbers does not convert (json.JSONDecodeError and int() / float()
\* raise ValueError, which is not in the except clause).
Faults == {"none", "read", "round", "config"}

\* idle_seconds = int(cfg.get("idle_seconds") or 600)
IdleSeconds(l) == IF l.idle_seconds = 0 THEN DEFAULT_IDLE_SECONDS ELSE l.idle_seconds

\* empty_queue_grace = int(cfg.get("empty_queue_grace_seconds") or 0)
EmptyQueueGrace(l) == l.empty_queue_grace_seconds

\* `if not enabled:` sets both timers to None.
Disabled(since) == None

\* `if active > 0 or gpu_active: idle_since = None`, else set when None.
IdleSince(since, c, gpu, t) ==
    IF c.running + c.queued + c.paused > 0 \/ gpu THEN None
    ELSE IF since = None THEN Some(t) ELSE since

\* `if queue_enabled and active_running == 0 and ... == 0:`
QueueCase(f, c) ==
    f.queue_enabled /\ c.running = 0 /\ c.queued = 0 /\ c.paused = 0

EmptyQueueSince(since, f, c, t) ==
    IF QueueCase(f, c) THEN (IF since = None THEN Some(t) ELSE since) ELSE None

\* One iteration of the loop at time t, from the timers idle and empty:
\* the timers it leaves, the termination it asks for ("none", "queue",
\* "idle"), the handled error it ends with and whether main returns.
PollOnce(idle, empty, l, f, c, gpu, t, fault) ==
    IF fault = "config"
    THEN [idle_since |-> idle, empty_queue_since |-> empty, ask |-> "none",
          error |-> "config", exit |-> FALSE]
    ELSE IF fault = "read"
    THEN [idle_since |-> idle, empty_queue_since |-> empty, ask |-> "none",
          error |-> "read", exit |-> FALSE]
    ELSE IF ~f.enabled
    THEN [idle_since |-> Disabled(idle), empty_queue_since |-> Disabled(empty),
          ask |-> "none", error |-> "none", exit |-> FALSE]
    ELSE LET idle1 == IdleSince(idle, c, gpu, t)
             empty1 == EmptyQueueSince(empty, f, c, t)
             ask == IF QueueCase(f, c) /\ t - empty1[1] >= EmptyQueueGrace(l)
                    THEN "queue"
                    ELSE IF /\ f.idle_enabled
                            /\ idle1 # None
                            /\ idle1[1] # 0
                            /\ t - idle1[1] >= IdleSeconds(l)
                    THEN "idle"
                    ELSE "none"
             error == IF ask # "none" /\ fault = "round" THEN "round" ELSE "none"
         IN  [idle_since |-> idle1, empty_queue_since |-> empty1, ask |-> ask,
              error |-> error, exit |-> ask # "none" /\ error = "none"]

\* ---- the watchdog's termination round ----------------------------------------

\* A listed pod is the object the API returns for `pods { id name
\* desiredStatus }`; its id is a string or null (None).
PodIds == {"p1", "p2"}
Pods == [id : {None} \cup {Some(i) : i \in PodIds}]
PodListings == UNION {[1..n -> Pods] : n \in 0..MaxPods}

\* os.getenv("RUNPOD_POD_ID"): None, the empty string or a pod id.
EnvPodIds == {None, Some(""), Some("p2")}

\* Python's truth value of an id: None and "" are false.
Truthy(v) == v # None /\ v[1] # ""

TargetsFirstOnly(ps, env, all) ==
    IF ps = <<>> THEN <<>>
    ELSE IF Truthy(env) THEN <<env>>
    ELSE <<ps[1].id>>

\* target_ids of _terminate_now, for a listing that was received.
Targets(ps, env, all) ==
    IF ps = <<>> THEN <<>>
    ELSE IF Truthy(env) THEN <<env>>
    ELSE IF all
    THEN LET kept == SelectSeq(ps, LAMBDA p : Truthy(p.id))
         IN  [i \in 1..Len(kept) |-> kept[i].id]
    ELSE <<ps[1].id>>

\* failAt tells which call of the round raises: 0 the listing, k the k-th
\* request, NoFailure none of them.
NoFailure == MaxPods + 1

\* _terminate_now: the targets it chose, the requests it sent (the one that
\* raised included) and how it ended.
TerminateNow(ps, env, all, failAt) ==
    IF failAt = 0
    THEN [terminate_all |-> all, targets |-> <<>>, sent |-> <<>>,
          outcome |-> "list_failed"]
    ELSE LET ts == Targets(ps, env, all)
         IN  IF failAt <= Len(ts)
             THEN [terminate_all |-> all, targets |-> ts,
                   sent |-> SubSeq(ts, 1, failAt), outcome |-> "request_failed"]
             ELSE [terminate_all |-> all, targets |-> ts, sent |-> ts,
                   outcome |-> "returned"]

\* ---- initial states -------------------------------------------------------

\* The file / object pairs a pass starts from: out of date in both directions
\* (sizes differ), up to date in both, present on one side only.
Stale == [l |-> [exists |-> TRUE, size |-> 0, mtime |-> TicksPerUnit],
          r |-> [exists |-> TRUE, size |-> MaxSize, time |-> Some(MaxTime)]]
Fresh == [l |-> [exists |-> TRUE, size |-> MaxSize, mtime |-> MaxTime * TicksPerUnit],
          r |-> [exists |-> TRUE, size |-> MaxSize, time |-> Some(MaxTime)]]
LocalOnly == [l |-> [exists |-> TRUE, size |-> MaxSize, mtime |-> TicksPerUnit],
              r |-> AbsentObject]
RemoteOnly == [l |-> AbsentFile,
               r |-> [exists |-> TRUE, size |-> MaxSize, time |-> Some(1)]]
Profiles == {Stale, Fresh, LocalOnly, RemoteOnly}
Missing == [l |-> AbsentFile, r |-> AbsentObject]

\* The store answers the listing with one page holding every object, none of
\* them a pseudo-directory, and the request does not fail.
LastPage(keys) ==
    [Contents |-> keys, IsTruncated |-> FALSE, NextContinuationToken |-> None]

PlainListing ==
    /\ dirKeys = {}
    /\ failPage = 0
    /\ pages = << LastPage(SortedSeq({k \in Keys : remoteObjs[k].exists})) >>

PassStart ==
    /\ objects = <<>>
    /\ total = 0
    /\ pending = <<>>
    /\ decided = [k \in Keys |-> "none"]
    /\ tasks = <<>>
    /\ completed = <<>>
    /\ cursor = 1
    /\ processed = 0
    /\ skipped = 0
    /\ failed = 0
    /\ transferred = 0
    /\ samples = EmptySamples
    /\ early = {}
    /\ token = None
    /\ requests = <<>>
    /\ etaAdded = <<>>
    /\ etaOut = None

\* ---- the connection parameters ---------------------------------------------

\* R2Config's fields that load_r2_config resolves from several places. A
\* parameter is set in at most one place here: an environment variable (any
\* of its names), the public file, the secrets file, or nowhere; "set" means
\* set to a non-empty value, as the code's truth tests read it.
Params == {"account_id", "bucket", "endpoint", "access_key", "secret_key"}
Required == {"bucket", "endpoint", "access_key", "secret_key"}
Places == {"nowhere", "env", "public", "secret"}

\* _env_first(names of p) is non-empty.
InEnv(s, p) == s.place[p] = "env"

\* secret_cfg: {} unless file secrets are allowed.
InSecretCfg(s, p) == s.allow /\ s.place[p] = "secret"

\* merged_cfg = {**cfg, **secret_cfg}
InMergedCfg(s, p) == s.place[p] = "public" \/ InSecretCfg(s, p)

\* The fields load_r2_config ends with a non-empty value for: the keys are
\* read from the environment and the secrets file only, and an account id
\* stands in for a missing endpoint.
Resolved(s) ==
    {p \in {"account_id", "bucket", "endpoint"} : InEnv(s, p) \/ InMergedCfg(s, p)}
        \cup {p \in {"access_key", "secret_key"} : InEnv(s, p) \/ InSecretCfg(s, p)}
        \cup (IF InEnv(s, "account_id") \/ InMergedCfg(s, "account_id")
                  THEN {"endpoint"} ELSE {})

\* load_r2_config() returns a configuration (TRUE) or None (FALSE).
LoadR2Config(s) == Required \subseteq Resolved(s)

\* The message main exits with when load_r2_config() returned None, and the
\* parameters it names.
ConfigError(s) ==
    LET missing == {p \in {"access_key", "secret_key"} : ~InEnv(s, p)}
    IN  IF missing # {}
          THEN [text |-> "R2 credentials missing", names |-> missing]
          ELSE [text |-> "R2 config not found", names |-> {}]

FullSettings == [place |-> [p \in Params |-> "env"], allow |-> TRUE]

PlainConfig ==
    /\ settings = FullSettings
    /\ diag = None

\* The watchdog is not running.
NoWatchdog ==
    /\ now = 0
    /\ limits = [idle_seconds |-> 0, empty_queue_grace_seconds |-> 0]
    /\ idle_since = None
    /\ empty_queue_since = None
    /\ poll = None
    /\ idleRun = None
    /\ emptyRun = None
    /\ disabledAt = None
    /\ pods = <<>>
    /\ env_pod_id = None
    /\ round = None

\* Nothing has been logged.
NoLog ==
    /\ statusLine = None
    /\ notice = ""

\* The directories of the tree exist already; no mkdir call has been made.
PlainTree ==
    /\ dirs = {"outer", "inner"}
    /\ mk = [i \in Keys |-> MkdirAt("first")]

\* One pass over any mix of the profiles. sync_workspace takes no overwrite
\* argument, so a push pass never runs with it set.
Init ==
    /\ NoWatchdog
    /\ NoLog
    /\ PlainTree
    /\ PlainConfig
    /\ mode \in {"pull", "push"}
    /\ workers \in 0..MaxWorkers
    /\ overwrite \in BOOLEAN
    /\ clockSane = TRUE
    /\ headSane = TRUE
    /\ statErr = {}
    /\ (mode = "push" => ~overwrite)
    /\ \E f \in [Keys -> Profiles] :
          /\ localFiles = [k \in Keys |-> f[k].l]
          /\ remoteObjs = [k \in Keys |-> f[k].r]
    /\ requested = Asked(workers)
    /\ PlainListing
    /\ pc = "start"
    /\ pass = "first"
    /\ prevSummary = None
    /\ PassStart

\* One pass over files present on both sides, out of date or up to date.
InitLive ==
    /\ NoWatchdog
    /\ NoLog
    /\ PlainTree
    /\ PlainConfig
    /\ mode \in {"pull", "push"}
    /\ workers \in 0..MaxWorkers
    /\ overwrite = FALSE
    /\ clockSane = TRUE
    /\ headSane = TRUE
    /\ statErr = {}
    /\ \E f \in [Keys -> {Stale, Fresh}] :
          /\ localFiles = [k \in Keys |-> f[k].l]
          /\ remoteObjs = [k \in Keys |-> f[k].r]
    /\ requested = Asked(workers)
    /\ PlainListing
    /\ pc = "start"
    /\ pass = "first"
    /\ prevSummary = None
    /\ PassStart

\* One pass over files present on both sides, at most one of which cannot
\* be stat'ed.
InitStat ==
    /\ NoWatchdog
    /\ NoLog
    /\ PlainTree
    /\ PlainConfig
    /\ mode \in {"pull", "push"}
    /\ workers \in 1..MaxWorkers
    /\ overwrite \in BOOLEAN
    /\ clockSane = TRUE
    /\ headSane = TRUE
    /\ statErr \in {{}} \cup {{k} : k \in Keys}
    /\ (mode = "push" => ~overwrite)
    /\ \E f \in [Keys -> {Stale, Fresh}] :
          /\ localFiles = [k \in Keys |-> f[k].l]
          /\ remoteObjs = [k \in Keys |-> f[k].r]
    /\ requested = Asked(workers)
    /\ PlainListing
    /\ pc = "start"
    /\ pass = "first"
    /\ prevSummary = None
    /\ PassStart

\* The answers a store can give to the requests of one listing of `keys`: up
\* to MaxPages pages that hold the keys in order, each page either the last
\* one or truncated, a truncated page naming the next page, no page, or
\* itself as the continuation.
Cuts(n, len) ==
    {c \in [0..n -> 0..len] :
        /\ c[0] = 0
        /\ c[n] = len
        /\ \A i \in 1..n : c[i - 1] <= c[i]}

PageFlags(i, n) ==
    {[IsTruncated |-> FALSE, NextContinuationToken |-> None],
     [IsTruncated |-> TRUE, NextContinuationToken |-> None],
     [IsTruncated |-> TRUE, NextContinuationToken |-> Some(i)]}
        \cup (IF i < n
               THEN {[IsTruncated |-> TRUE, NextContinuationToken |-> Some(i + 1)]}
               ELSE {})

Listings(keys) ==
    UNION {
        {[i \in 1..n |->
            [Contents |-> SubSeq(keys, c[i - 1] + 1, c[i]),
             IsTruncated |-> f[i].IsTruncated,
             NextContinuationToken |-> f[i].NextContinuationToken]] :
         c \in Cuts(n, Len(keys)),
         f \in {g \in [1..n -> PageFlags(1, n) \cup PageFlags(n, n)] :
                   \A i \in 1..n : g[i] \in PageFlags(i, n)}} :
        n \in 1..MaxPages}

ListLocalFiles == [k \in Keys |-> IF k % 2 = 1 THEN RemoteOnly.l ELSE Fresh.l]

\* A pull pass with the sequential loop over a store in which odd keys have
\* no local file and even keys are up to date, at most one key is a
\* pseudo-directory, and the listing is answered in any of the ways above.
InitList ==
    /\ NoWatchdog
    /\ NoLog
    /\ PlainTree
    /\ PlainConfig
    /\ mode = "pull"
    /\ workers = 1
    /\ overwrite = FALSE
    /\ clockSane = TRUE
    /\ headSane = TRUE
    /\ statErr = {}
    /\ localFiles = ListLocalFiles
    /\ remoteObjs = [k \in Keys |-> IF k % 2 = 1 THEN RemoteOnly.r ELSE Fresh.r]
    /\ dirKeys \in {{}} \cup {{k} : k \in Keys}
    /\ failPage \in 0..MaxPages
    /\ pages \in Listings(SortedSeq(Keys))
    /\ requested = Asked(workers)
    /\ pc = "start"
    /\ pass = "first"
    /\ prevSummary = None
    /\ PassStart

\* A run of the script from main, the worker count given by --workers (from
\* negative to MaxWorkers) or left to the environment (unset, 0, or
\* MaxWorkers), over files present on both sides.
InitMain ==
    /\ NoWatchdog
    /\ NoLog
    /\ PlainTree
    /\ PlainConfig
    /\ mode \in {"pull", "push"}
    /\ requested \in
          {[arg |-> Some(w), env |-> None] : w \in (0 - 1)..MaxWorkers}
              \cup {[arg |-> None, env |-> e] : e \in {None, Some(0), Some(MaxWorkers)}}
    /\ workers = 0
    /\ overwrite = FALSE
    /\ clockSane = TRUE
    /\ headSane = TRUE
    /\ statErr = {}
    /\ \E f \in [Keys -> {Stale, Fresh}] :
          /\ localFiles = [k \in Keys |-> f[k].l]
          /\ remoteObjs = [k \in Keys |-> f[k].r]
    /\ PlainListing
    /\ pc = "main"
    /\ pass = "first"
    /\ prevSummary = None
    /\ PassStart

\* A run of either script from main, the connection parameters set anywhere
\* or nowhere, over a tree whose files all need a transfer.
InitConfig ==
    /\ NoWatchdog
    /\ NoLog
    /\ PlainTree
    /\ settings \in [place : [Params -> Places], allow : BOOLEAN]
    /\ diag = None
    /\ mode \in {"pull", "push"}
    /\ requested = [arg |-> Some(1), env |-> None]
    /\ workers = 0
    /\ overwrite = FALSE
    /\ clockSane = TRUE
    /\ headSane = TRUE
    /\ statErr = {}
    /\ localFiles = [k \in Keys |-> Stale.l]
    /\ remoteObjs = [k \in Keys |-> Stale.r]
    /\ PlainListing
    /\ pc = "main"
    /\ pass = "first"
    /\ prevSummary = None
    /\ PassStart

\* A pull pass of a pool over objects without local file, all under one
\* parent directory that may not exist yet, nor its own parent.
InitMkdir ==
    /\ NoWatchdog
    /\ NoLog
    /\ PlainConfig
    /\ dirs \in Tree
    /\ mk = [i \in Keys |-> MkdirAt("first")]
    /\ mode = "pull"
    /\ workers \in 1..MaxWorkers
    /\ requested = Asked(workers)
    /\ overwrite = FALSE
    /\ clockSane = TRUE
    /\ headSane = TRUE
    /\ statErr = {}
    /\ localFiles = [k \in Keys |-> RemoteOnly.l]
    /\ remoteObjs = [k \in Keys |-> RemoteOnly.r]
    /\ PlainListing
    /\ pc = "start"
    /\ pass = "first"
    /\ prevSummary = None
    /\ PassStart

\* The transfer loop over many items: one item, one less and one more than
\* a logging period and up to MaxItems of them. The items are numbered; the
\* tree and the store are left out, every transfer succeeds.
LogTotals == {1, LOG_EVERY - 1, LOG_EVERY, LOG_EVERY + 1, MaxItems}

InitLog ==
    /\ NoWatchdog
    /\ NoLog
    /\ PlainTree
    /\ PlainConfig
    /\ mode \in {"pull", "push"}
    /\ workers = 1
    /\ requested = Asked(workers)
    /\ overwrite = FALSE
    /\ clockSane = TRUE
    /\ headSane = TRUE
    /\ statErr = {}
    /\ localFiles = [k \in Keys |-> AbsentFile]
    /\ remoteObjs = [k \in Keys |-> AbsentObject]
    /\ PlainListing
    /\ pc = "count"
    /\ pass = "first"
    /\ prevSummary = None
    /\ objects = <<>>
    /\ \E n \in LogTotals :
          /\ pending = [i \in 1..n |-> i]
          /\ total = n
    /\ decided = [k \in Keys |-> "none"]
    /\ tasks = <<>>
    /\ completed = <<>>
    /\ cursor = 1
    /\ processed = 0
    /\ skipped = 0
    /\ failed = 0
    /\ transferred = 0
    /\ samples = EmptySamples
    /\ early = {}
    /\ token = None
    /\ requests = <<>>
    /\ etaAdded = <<>>
    /\ etaOut = None

\* The watchdog after "Runpod watchdog started.": no timer is set. The
\* thresholds of the configuration stay the same over a run; the flags, the
\* counts and the GPU state are read at every poll.
InitWatchdog ==
    /\ now = 0
    /\ limits \in [idle_seconds : 0..2, empty_queue_grace_seconds : 0..2]
    /\ idle_since = None
    /\ empty_queue_since = None
    /\ poll = None
    /\ idleRun = None
    /\ emptyRun = None
    /\ disabledAt = None
    /\ pods = <<[id |-> Some("p1")]>>
    /\ env_pod_id = None
    /\ round = None
    /\ NoLog
    /\ PlainTree
    /\ PlainConfig
    /\ mode = "pull"
    /\ workers = 1
    /\ requested = Asked(workers)
    /\ overwrite = FALSE
    /\ clockSane = TRUE
    /\ headSane = TRUE
    /\ statErr = {}
    /\ localFiles = [k \in Keys |-> AbsentFile]
    /\ remoteObjs = [k \in Keys |-> AbsentObject]
    /\ PlainListing
    /\ pc = "poll"
    /\ pass = "first"
    /\ prevSummary = None
    /\ PassStart

\* The watchdog about to run a termination round, with any listing and any
\* RUNPOD_POD_ID.
InitTerminate ==
    /\ now = 0
    /\ limits = [idle_seconds |-> 0, empty_queue_grace_seconds |-> 0]
    /\ idle_since = None
    /\ empty_queue_since = None
    /\ poll = None
    /\ idleRun = None
    /\ emptyRun = None
    /\ disabledAt = None
    /\ pods \in PodListings
    /\ env_pod_id \in EnvPodIds
    /\ round = None
    /\ NoLog
    /\ PlainTree
    /\ PlainConfig
    /\ mode = "pull"
    /\ workers = 1
    /\ requested = Asked(workers)
    /\ overwrite = FALSE
    /\ clockSane = TRUE
    /\ headSane = TRUE
    /\ statErr = {}
    /\ localFiles = [k \in Keys |-> AbsentFile]
    /\ remoteObjs = [k \in Keys |-> AbsentObject]
    /\ PlainListing
    /\ pc = "round"
    /\ pass = "first"
    /\ prevSummary = None
    /\ PassStart

\* A tracker on its own, RollingEta(windows): over the program's windows or
\* over any windows up to MaxWindow (a window of 0 never keeps a sample).
EtaDurations == {1, 40}

InitEta ==
    /\ NoWatchdog
    /\ NoLog
    /\ PlainTree
    /\ PlainConfig
    /\ mode = "pull"
    /\ workers = 1
    /\ requested = Asked(workers)
    /\ overwrite = FALSE
    /\ clockSane = TRUE
    /\ headSane = TRUE
    /\ statErr = {}
    /\ localFiles = [k \in Keys |-> AbsentFile]
    /\ remoteObjs = [k \in Keys |-> AbsentObject]
    /\ PlainListing
    /\ pc = "tracker"
    /\ pass = "first"
    /\ prevSummary = None
    /\ objects = <<>>
    /\ total = 0
    /\ pending = <<>>
    /\ decided = [k \in Keys |-> "none"]
    /\ tasks = <<>>
    /\ completed = <<>>
    /\ cursor = 1
    /\ processed = 0
    /\ skipped = 0
    /\ failed = 0
    /\ transferred = 0
    /\ \E ws \in {ETA_WINDOWS} \cup (SUBSET (0..MaxWindow) \ {{}}) :
          samples = [w \in ws |-> <<>>]
    /\ early = {}
    /\ token = None
    /\ requests = <<>>
    /\ etaAdded = <<>>
    /\ etaOut = None

\* Two passes in a row, each with the sequential loop: the first TwiceKeys
\* keys hold any profile, the others exist on neither side; the clock may be
\* skewed and head_object may fail.
InitTwice ==
    /\ NoWatchdog
    /\ NoLog
    /\ PlainTree
    /\ PlainConfig
    /\ mode \in {"pull", "push"}
    /\ workers \in 0..1
    /\ overwrite \in BOOLEAN
    /\ clockSane \in BOOLEAN
    /\ headSane = FALSE
    /\ statErr = {}
    /\ (mode = "push" => ~overwrite)
    /\ \E f \in [Keys -> Profiles \cup {Missing}] :
          /\ \A k \in Keys : f[k] = Missing <=> k > TwiceKeys
          /\ localFiles = [k \in Keys |-> f[k].l]
          /\ remoteObjs = [k \in Keys |-> f[k].r]
    /\ requested = Asked(workers)
    /\ PlainListing
    /\ pc = "start"
    /\ pass = "first"
    /\ prevSummary = None
    /\ PassStart

\* One decision of the diff engine on key 1, over every file / object pair:
\* a listed object in the download direction, a walked file in the upload
\* direction, with the overwrite input of the decision either way.
InitDecide ==
    /\ NoWatchdog
    /\ NoLog
    /\ PlainTree
    /\ PlainConfig
    /\ mode \in {"pull", "push"}
    /\ workers = 1
    /\ overwrite \in BOOLEAN
    /\ clockSane = TRUE
    /\ headSane = TRUE
    /\ statErr = {}
    /\ \E l \in LocalDomain, r \in RemoteDomain :
          /\ mode = "pull" => r.exists
          /\ mode = "push" => l.exists
          /\ localFiles = [k \in Keys |-> IF k = 1 THEN l ELSE AbsentFile]
          /\ remoteObjs = [k \in Keys |-> IF k = 1 THEN r ELSE AbsentObject]
    /\ requested = Asked(workers)
    /\ PlainListing
    /\ pc = "decide"
    /\ pass = "first"
    /\ prevSummary = None
    /\ PassStart

\* ---- main -------------------------------------------------------------------

\* main loads the configuration and exits without it; with it, it settles the
\* worker count and calls the pass.
Main ==
    /\ pc = "main"
    /\ IF LoadR2Config(settings)
         THEN /\ workers' = Floor(Wanted(requested))
              /\ pc' = "start"
              /\ diag' = diag
         ELSE /\ diag' = Some(ConfigError(settings))
              /\ pc' = "fatal"
              /\ workers' = workers
    /\ UNCHANGED << wdVars, dirVars, logVars, settings, mode, requested, overwrite, clockSane, headSane, statErr,
                    dirKeys, pages, failPage, listVars, etaVars, fsVars, pass,
                    prevSummary, objects, total, pending, decided, tasks,
                    completed, cursor, counterVars, poolVars >>

\* ---- the pull pass: restore_workspace -------------------------------------

\* `if not rel_path or rel_path.endswith("/"): continue`
KeepObjectAny(k) == TRUE

KeepObject(k) == k \notin dirKeys

\* What the pass does when list_objects_v2 raises: nothing catches it.
OnListErrorGoOn == "diff"

OnListError == "aborted"

\* The token _list_objects holds after a response.
NextTokenKept(resp, held) == held

NextToken(resp, held) == resp.NextContinuationToken

\* A listing that needs more requests than the store has pages has asked for
\* a page twice; it gets the same answers again and never ends.
MaxRequests == MaxPages + 1

\* One request of _list_objects and the handling of the items it yields by
\* restore_workspace; the last response ends the listing.
RestoreList ==
    /\ pc = "start"
    /\ mode = "pull"
    /\ Len(requests) < MaxRequests
    /\ LET p == IF token = None THEN 1 ELSE token[1]
           resp == pages[p]
       IN  /\ requests' = Append(requests, p)
           /\ IF p = failPage
              THEN /\ pc' = OnListError
                   /\ UNCHANGED << objects, total, token >>
              ELSE /\ objects' = objects \o SelectSeq(resp.Contents, KeepObject)
                   /\ IF resp.IsTruncated
                      THEN /\ token' = NextToken(resp, token)
                           /\ pc' = "start"
                           /\ total' = total
                      ELSE /\ token' = token
                           /\ total' = Len(objects')
                           /\ pc' = IF total' = 0 THEN "done" ELSE "diff"
    /\ notice' = IF pc' = "done" THEN "no objects"
                 ELSE IF pc' = "diff" THEN "objects to consider"
                 ELSE notice
    /\ UNCHANGED << envVars, dirVars, statusLine, etaVars, fsVars, pass, prevSummary, pending, decided, tasks,
                    completed, cursor, counterVars, poolVars >>

WantDownload(k) ==
    ShouldDownload(localFiles[k], remoteObjs[k].size, remoteObjs[k].time, overwrite)

\* _should_download stats the local path unless overwrite is set; only a
\* FileNotFoundError is handled there.
StatRaises(k) == ~overwrite /\ k \in statErr

\* The diff loop; an exception of _should_download ends it and the pass.
RestoreDiff ==
    /\ pc = "diff"
    /\ LET bad == {i \in DOMAIN objects : StatRaises(objects[i])}
           stop == IF bad = {} THEN Len(objects) + 1
                   ELSE CHOOSE i \in bad : \A j \in bad : i <= j
           seen == SubSeq(objects, 1, stop - 1)
       IN  /\ pending' = SelectSeq(seen, WantDownload)
           /\ skipped' = Len(seen) - Len(pending')
           /\ decided' = [k \in Keys |->
                            IF \E i \in DOMAIN seen : seen[i] = k
                            THEN Decision(WantDownload(k)) ELSE "none"]
           /\ tasks' = IF bad = {} THEN [i \in DOMAIN pending' |-> QueuedTask]
                        ELSE <<>>
           /\ pc' = IF bad # {} THEN "aborted"
                    ELSE AfterDiff(pending', workers)
           /\ notice' = IF bad # {} THEN notice ELSE DiffNotice(pending')
    /\ UNCHANGED << envVars, dirVars, statusLine, etaVars, listVars, fsVars, pass, prevSummary, objects, total, completed,
                    cursor, processed, failed, transferred, samples, poolVars >>

\* ---- the push pass: sync_workspace ----------------------------------------

SyncScan ==
    /\ pc = "start"
    /\ mode = "push"
    /\ pending' = SortedSeq({k \in Keys : localFiles[k].exists})
    /\ total' = Len(pending')
    /\ tasks' = [i \in DOMAIN pending' |-> QueuedTask]
    /\ pc' = IF pending' = <<>> THEN "done" ELSE LoopEntry(workers)
    /\ notice' = IF pending' = <<>> THEN "no files" ELSE "files to scan"
    /\ UNCHANGED << envVars, dirVars, statusLine, etaVars, listVars, fsVars, pass, prevSummary, objects, decided, completed,
                    cursor, counterVars, poolVars >>

\* ---- the transfer loops ---------------------------------------------------

ApplyBody(k, res) ==
    /\ localFiles' = [localFiles EXCEPT ![k] = res.local]
    /\ remoteObjs' = [remoteObjs EXCEPT ![k] = res.remote]
    /\ decided' = [decided EXCEPT ![k] = res.decision]

\* One iteration of the sequential loop: run the task, aggregate its outcome.
SeqStep ==
    /\ pc = "seq"
    /\ cursor \in DOMAIN pending
    /\ LET made == IF mode = "pull" THEN MkdirRun(mk[cursor], dirs)
                   ELSE [mk |-> mk[cursor], dirs |-> dirs]
       IN  /\ dirs' = made.dirs
           /\ mk' = [mk EXCEPT ![cursor] = made.mk]
           /\ \E res \in TaskChoices(pending[cursor], made.mk) :
                 /\ ApplyBody(pending[cursor], res)
                 /\ tasks' = [tasks EXCEPT ![cursor] =
                                 [Ran(@, res, "consumed") EXCEPT !.yields = @ + 1]]
                 /\ LET c == Aggregate(Counters, res.out.status, res.out.elapsed)
                    IN  /\ SetCounters(c)
                        /\ statusLine' = StatusLine(c, Len(pending))
    /\ cursor' = NextCursor(cursor)
    /\ pc' = IF cursor' \in DOMAIN pending THEN "seq" ELSE "done"
    /\ UNCHANGED << envVars, notice, etaVars, listVars, pass, prevSummary, objects, total, pending, completed,
                    poolVars >>

\* A pool thread takes the oldest submitted task that has not started.
WorkerStart ==
    /\ pc \in {"pool", "collect"}
    /\ Queued # {}
    /\ Cardinality(InFlight) < PoolSize(workers)
    /\ LET i == CHOOSE q \in Queued : \A o \in Queued : q <= o
       IN  tasks' = [tasks EXCEPT ![i].state = "running"]
    /\ UNCHANGED << envVars, dirVars, logVars, etaVars, listVars, fsVars, pc, pass, prevSummary, objects, total, pending,
                    decided, completed, cursor, counterVars, poolVars >>

\* A running download makes one os.mkdir call of its Path.mkdir; the calls of
\* the pool's threads interleave.
Mkdir ==
    /\ pc \in {"pool", "collect"}
    /\ mode = "pull"
    /\ \E i \in InFlight :
          /\ ~MkdirOver(mk[i])
          /\ LET r == OsMkdir(mk[i], dirs)
             IN  /\ dirs' = r.dirs
                 /\ mk' = [mk EXCEPT ![i] = r.mk]
    /\ UNCHANGED << envVars, logVars, etaVars, listVars, fsVars, pc, pass, prevSummary, objects,
                    total, pending, decided, tasks, completed, cursor, counterVars,
                    poolVars >>

\* A running task body returns (after what is left of its mkdir, for a
\* download): its future completes.
WorkerFinish ==
    /\ pc \in {"pool", "collect"}
    /\ \E i \in InFlight :
          LET made == IF mode = "pull" THEN MkdirRun(mk[i], dirs)
                      ELSE [mk |-> mk[i], dirs |-> dirs]
          IN  /\ dirs' = made.dirs
              /\ mk' = [mk EXCEPT ![i] = made.mk]
              /\ \E res \in TaskChoices(pending[i], made.mk) :
                    /\ ApplyBody(pending[i], res)
                    /\ tasks' = [tasks EXCEPT ![i] = Ran(@, res, "done")]
                    /\ SetCounters(WorkerCounters(Counters, res.out.status,
                                                  res.out.elapsed))
              /\ completed' = Append(completed, i)
    /\ UNCHANGED << envVars, logVars, etaVars, listVars, pc, pass, prevSummary, objects, total, pending, cursor,
                    poolVars >>

\* Every future is submitted; the aggregator calls as_completed, which sets
\* aside the futures that are finished by then and waits for the others.
AsCompleted ==
    /\ pc = "pool"
    /\ early' = SeqToSet(completed)
    /\ pc' = "collect"
    /\ UNCHANGED << envVars, dirVars, logVars, etaVars, listVars, fsVars, pass, prevSummary, objects, total, pending,
                    decided, tasks, completed, cursor, counterVars >>

\* as_completed yields a future and the loop body aggregates its outcome.
\* The futures found finished at the call come first, in the order of a set
\* iteration; the others follow as they complete.
Consume ==
    /\ pc = "collect"
    /\ \E i \in YieldNext(early, completed) :
          /\ tasks' = [tasks EXCEPT ![i].state = "consumed", ![i].yields = @ + 1]
          /\ LET c == Aggregate(Counters, tasks[i].status, tasks[i].elapsed)
             IN  /\ SetCounters(c)
                 /\ statusLine' = StatusLine(c, Len(pending))
          /\ early' = early \ {i}
          /\ completed' = SelectSeq(completed, LAMBDA j : j # i)
    /\ pc' = IF AllConsumed(tasks') THEN "done" ELSE "collect"
    /\ UNCHANGED << envVars, dirVars, notice, etaVars, listVars, fsVars, pass, prevSummary, objects, total, pending,
                    decided, cursor >>

\* The script is run again over what the previous pass left behind.
NextPass ==
    /\ pc = "done"
    /\ pass = "first"
    /\ pass' = "second"
    /\ prevSummary' = Some([transferred |-> transferred, failed |-> failed])
    /\ pc' = "start"
    /\ objects' = <<>>
    /\ total' = 0
    /\ pending' = <<>>
    /\ decided' = [k \in Keys |-> "none"]
    /\ tasks' = <<>>
    /\ completed' = <<>>
    /\ cursor' = 1
    /\ SetCounters([processed |-> 0, skipped |-> 0, failed |-> 0,
                    transferred |-> 0, samples |-> EmptySamples])
    /\ early' = {}
    /\ token' = None
    /\ requests' = <<>>
    /\ mk' = [i \in Keys |-> MkdirAt("first")]
    /\ statusLine' = None
    /\ notice' = ""
    /\ UNCHANGED << envVars, dirs, etaVars, fsVars >>

\* ---- the loop over many items -------------------------------------------------

\* One iteration of the sequential loop for an item whose transfer succeeds:
\* the outcome is aggregated and the status line logged when it is due.
LogStep ==
    /\ pc = "count"
    /\ cursor \in DOMAIN pending
    /\ \E dur \in Durations :
          LET c == Aggregate(Counters, IF mode = "pull" THEN "downloaded" ELSE "uploaded",
                             dur)
          IN  /\ SetCounters(c)
              /\ statusLine' = StatusLine(c, Len(pending))
    /\ cursor' = NextCursor(cursor)
    /\ pc' = IF cursor' \in DOMAIN pending THEN "count" ELSE "done"
    /\ UNCHANGED << envVars, dirVars, notice, etaVars, listVars, fsVars, pass, prevSummary,
                    objects, total, pending, decided, tasks, completed, poolVars >>

\* ---- the watchdog's loop -------------------------------------------------------

\* One iteration of `while True`: the configuration is loaded, the counts and
\* the GPU are read, the timers are updated and a termination may be asked
\* for; main returns after a termination round that raised nothing, else
\* the loop sleeps (time passes) and polls again.
Poll ==
    /\ pc = "poll"
    /\ now < MaxClock
    /\ \E t \in (now + 1)..MaxClock, f \in Flags, c \in Counts, gpu \in BOOLEAN,
          fault \in Faults :
          LET r == PollOnce(idle_since, empty_queue_since, limits, f, c, gpu, t, fault)
              idleSeen == f.enabled /\ c.running + c.queued + c.paused = 0 /\ ~gpu
              emptySeen == f.enabled /\ QueueCase(f, c)
              run(old, seen) ==
                  IF r.error = "config" THEN old
                  ELSE IF ~f.enabled THEN None
                  ELSE IF r.error = "read" THEN old
                  ELSE IF seen THEN (IF old = None THEN Some(t) ELSE old)
                  ELSE None
          IN  /\ now' = t
              \* terminate_all is read at every poll and used by the round only
              /\ \E all \in (IF r.ask = "none" THEN {FALSE} ELSE BOOLEAN) :
                 \E failAt \in (IF r.error = "round"
                                 THEN 0..Len(Targets(pods, env_pod_id, all))
                                 ELSE {NoFailure}) :
                    round' = IF r.ask = "none" THEN None
                             ELSE Some(TerminateNow(pods, env_pod_id, all, failAt))
              /\ idle_since' = r.idle_since
              /\ empty_queue_since' = r.empty_queue_since
              /\ poll' = Some([t |-> t, enabled |-> f.enabled,
                               idle_enabled |-> f.idle_enabled,
                               queue_enabled |-> f.queue_enabled,
                               counts |-> c, gpu_active |-> gpu,
                               ask |-> r.ask, error |-> r.error])
              /\ idleRun' = run(idleRun, idleSeen)
              /\ emptyRun' = run(emptyRun, emptySeen)
              /\ disabledAt' = IF f.enabled THEN disabledAt ELSE Some(t)
              /\ pc' = IF r.error = "config" THEN "crashed"
                       ELSE IF r.exit THEN "exit" ELSE "poll"
    /\ UNCHANGED << limits, pods, env_pod_id, baseVars, dirVars, logVars, etaVars,
                    listVars, fsVars, pass,
                    prevSummary, objects, total, pending, decided, tasks, completed,
                    cursor, counterVars, poolVars >>

\* ---- the termination round on its own -----------------------------------------

\* One call of _terminate_now. A round that raises is handled by the loop,
\* whose next poll asks for the round again.
Terminate ==
    /\ pc = "round"
    /\ \E all \in BOOLEAN :
       \E failAt \in 0..Len(Targets(pods, env_pod_id, all)) \cup {NoFailure} :
          LET r == TerminateNow(pods, env_pod_id, all, failAt)
          IN  /\ round' = Some(r)
              /\ pc' = IF r.outcome = "returned" THEN "exit" ELSE "round"
    /\ UNCHANGED << now, limits, idle_since, empty_queue_since, poll, idleRun, emptyRun,
                    disabledAt, pods, env_pod_id, baseVars, dirVars, logVars, etaVars,
                    listVars, fsVars, pass, prevSummary, objects, total, pending,
                    decided, tasks, completed, cursor, counterVars, poolVars >>

\* ---- the tracker on its own ------------------------------------------------

EtaAdd ==
    /\ pc = "tracker"
    /\ Len(etaAdded) < MaxAdds
    /\ \E d \in EtaDurations :
          /\ samples' = TrackerAdd(samples, d)
          /\ etaAdded' = Append(etaAdded, d)
    /\ etaOut' = None
    /\ UNCHANGED << envVars, dirVars, logVars, listVars, fsVars, pc, pass, prevSummary, objects, total,
                    pending, decided, tasks, completed, cursor, processed, skipped,
                    failed, transferred, poolVars >>

EtaFormat ==
    /\ pc = "tracker"
    /\ \E r \in (0 - 1)..MaxRemaining :
          etaOut' = Some([remaining |-> r, out |-> Format(samples, r)])
    /\ UNCHANGED << envVars, dirVars, logVars, listVars, fsVars, pc, pass, prevSummary, objects, total,
                    pending, decided, tasks, completed, cursor, counterVars,
                    poolVars, etaAdded >>

\* ---- one decision of the diff engine --------------------------------------

DecideDownload ==
    /\ pc = "decide"
    /\ mode = "pull"
    /\ decided' = [decided EXCEPT ![1] = Decision(WantDownload(1))]
    /\ pc' = "decided"
    /\ UNCHANGED << envVars, dirVars, logVars, etaVars, listVars, fsVars, pass, prevSummary, objects, total, pending,
                    tasks, completed, cursor, counterVars, poolVars >>

DecideUpload ==
    /\ pc = "decide"
    /\ mode = "push"
    /\ decided' = [decided EXCEPT ![1] =
                      Decision(ShouldUpload(localFiles[1],
                                            HeadObject(remoteObjs[1], TRUE)))]
    /\ pc' = "decided"
    /\ UNCHANGED << envVars, dirVars, logVars, etaVars, listVars, fsVars, pass, prevSummary, objects, total, pending,
                    tasks, completed, cursor, counterVars, poolVars >>

\* ---- specifications -------------------------------------------------------

Next ==
    \/ RestoreList
    \/ RestoreDiff
    \/ SyncScan
    \/ SeqStep
    \/ WorkerStart
    \/ WorkerFinish
    \/ AsCompleted
    \/ Consume

NextTwice ==
    \/ RestoreList
    \/ RestoreDiff
    \/ SyncScan
    \/ SeqStep
    \/ NextPass

NextList ==
    \/ RestoreList
    \/ RestoreDiff
    \/ SeqStep

NextMain ==
    \/ Main
    \/ Next

NextMkdir ==
    \/ RestoreList
    \/ RestoreDiff
    \/ SeqStep
    \/ WorkerStart
    \/ Mkdir
    \/ WorkerFinish
    \/ AsCompleted
    \/ Consume

NextLog == LogStep

NextWatchdog == Poll

NextTerminate == Terminate

NextConfig ==
    \/ Main
    \/ RestoreList
    \/ RestoreDiff
    \/ SyncScan
    \/ SeqStep

NextEta ==
    \/ EtaAdd
    \/ EtaFormat

NextDecide ==
    \/ DecideDownload
    \/ DecideUpload

Spec == Init /\ [][Next]_vars

SpecTwice == InitTwice /\ [][NextTwice]_vars

SpecDecide == InitDecide /\ [][NextDecide]_vars

\* The orchestrator's thread and the pool's threads are scheduled, and every
\* transfer call returns or raises: a step of the pass that can be taken is
\* taken.
SpecLive ==
    /\ InitLive /\ [][Next]_vars
    /\ WF_vars(RestoreList) /\ WF_vars(RestoreDiff) /\ WF_vars(SyncScan)
    /\ WF_vars(SeqStep)
    /\ WF_vars(WorkerStart) /\ WF_vars(WorkerFinish)
    /\ WF_vars(AsCompleted) /\ WF_vars(Consume)

SpecStat == InitStat /\ [][Next]_vars

SpecMain == InitMain /\ [][NextMain]_vars

SpecMkdir == InitMkdir /\ [][NextMkdir]_vars

SpecLog == InitLog /\ [][NextLog]_vars

SpecWatchdog == InitWatchdog /\ [][NextWatchdog]_vars

SpecTerminate == InitTerminate /\ [][NextTerminate]_vars

SpecConfig == InitConfig /\ [][NextConfig]_vars

SpecEta == InitEta /\ [][NextEta]_vars

SpecList == InitList /\ [][NextList]_vars

\* The listing loop runs in the only thread of the pass and each request
\* returns or raises, so a request that can be made is made.
SpecListLive == SpecList /\ WF_vars(NextList)

\* ---- the diff engine (SpecDecide) -----------------------------------------

Local1 == localFiles[1]
Remote1 == remoteObjs[1]
\* The local modification time as the code compares it.
LocalMtime1 == FromTimestamp(Local1.mtime)
RemoteHasTime1 == Remote1.time # None

C5_NoRemoteTimeSkips ==
    ( /\ pc = "decided" /\ ~overwrite
      /\ Local1.exists /\ Remote1.exists
      /\ Local1.size = Remote1.size /\ ~RemoteHasTime1 ) =>
        decided[1] = "skip"

\* C5 witness: such a pair decided in the upload direction.
C5_Witness ==
    /\ pc = "decided" /\ ~overwrite /\ mode = "push"
    /\ Local1.exists /\ Remote1.exists
    /\ Local1.size = Remote1.size /\ ~RemoteHasTime1
    /\ decided[1] = "skip"

\* ---- counters and the transfer loops (Spec) --------------------------------

Finished == {i \in DOMAIN tasks : tasks[i].state \in {"done", "consumed"}}
Yielded == {i \in DOMAIN tasks : tasks[i].yields = 1}
Transferring == {"downloaded", "uploaded"}

\* C1 as stated: in both directions processed = transferred + skipped +
\* failed, and processed <= total discovered items, at every point of a pass.
C1_CountersAddUp ==
    /\ processed = transferred + skipped + failed
    /\ processed <= total

\* C1 amended: processed <= total always; in the push direction processed =
\* uploaded + skipped + failed; in the pull direction skipped is counted by
\* the diff before any transfer and is no part of processed, so processed =
\* downloaded + failed and processed + skipped <= total.
C1_CountersPerDirection ==
    /\ processed <= total
    /\ mode = "push" => processed = transferred + skipped + failed
    /\ mode = "pull" =>
          /\ processed = transferred + failed
          /\ processed + skipped <= total

\* C1 witness: a finished pull pass that skipped, downloaded and failed.
C1_Witness ==
    /\ pc = "done" /\ mode = "pull"
    /\ skipped > 0 /\ transferred > 0 /\ failed > 0

\* C7: every submitted task is executed exactly once and yields exactly one
\* outcome, whatever the worker count: none dropped, none run twice, and the
\* outcomes consumed number the tasks.
C7_EveryTaskOnce ==
    /\ DOMAIN tasks = DOMAIN pending
    /\ \A i \in DOMAIN tasks :
          /\ tasks[i].runs <= 1
          /\ tasks[i].yields <= tasks[i].runs
    /\ processed = Cardinality(Yielded)
    /\ pc = "done" =>
          /\ processed = Len(pending)
          /\ \A i \in DOMAIN tasks :
                /\ tasks[i].runs = 1
                /\ tasks[i].yields = 1
                /\ tasks[i].status \in Transferring \cup {"skipped", "failed"}

\* C7 witness: a pool pass with more tasks than workers has consumed them all.
C7_Witness ==
    /\ pc = "done" /\ workers > 1
    /\ Len(pending) > workers
    /\ processed = Len(pending)

\* C8: what a task's transfer raises is caught and becomes a failed outcome
\* with a non-empty error description; a task whose transfer raised nothing
\* keeps its own outcome, and every task of the batch is completed and
\* consumed whether or not others failed.
C8_FailureIsolated ==
    /\ \A i \in Finished :
          /\ tasks[i].raised # NoExc =>
                /\ tasks[i].status = "failed"
                /\ tasks[i].err # None
                /\ tasks[i].err[1] # ""
          /\ tasks[i].raised = NoExc =>
                /\ tasks[i].err = None
                /\ tasks[i].status =
                      IF decided[pending[i]] = "skip" THEN "skipped"
                      ELSE IF mode = "pull" THEN "downloaded" ELSE "uploaded"
    /\ pc = "done" => \A i \in DOMAIN tasks : tasks[i].state = "consumed"

\* C8 witness: a finished batch in which a task failed and a later one went
\* through.
C8_Witness ==
    /\ pc = "done"
    /\ \E i, j \in DOMAIN tasks :
          /\ i < j
          /\ tasks[i].status = "failed" /\ tasks[i].raised = "PermissionError"
          /\ tasks[j].status \in Transferring

\* C9: with workers > 1, never more than `workers` transfers are in flight.
C9_BoundedInFlight ==
    workers > 1 => Cardinality(InFlight) <= workers

\* C9 witness: the pool is full while a task still waits.
C9_Witness ==
    /\ workers > 1
    /\ Cardinality(InFlight) = workers
    /\ Queued # {}

\* C10: with workers <= 1 the tasks run one at a time in submission order:
\* task i+1 has not started until task i's outcome has been aggregated.
C10_StrictlySequential ==
    workers <= 1 =>
        /\ Cardinality(InFlight) <= 1
        /\ \A i \in DOMAIN tasks :
              (i + 1 \in DOMAIN tasks /\ tasks[i + 1].state # "queued") =>
                  tasks[i].state = "consumed" /\ processed >= i

\* C10 witness: workers = 0, two tasks aggregated, a third not yet started.
C10_Witness ==
    /\ workers = 0
    /\ Len(pending) >= 3
    /\ tasks[2].state = "consumed"
    /\ tasks[3].state = "queued"

\* C18: only successful transfers add duration samples. The windows of the
\* program are larger than a pass of the model is long, so the length of a
\* window is the number of add() calls: it equals the transferred counter at
\* every point, and a failed or skipped outcome is counted by its own counter
\* only.
C18_SamplesOnlyFromTransfers ==
    LET got(st) == {i \in Yielded : tasks[i].status \in st}
    IN  /\ \A w \in DOMAIN samples : Len(samples[w]) = transferred
        /\ transferred = Cardinality(got(Transferring))
        /\ failed = Cardinality(got({"failed"}))
        /\ mode = "push" => skipped = Cardinality(got({"skipped"}))

\* C18 witness: a finished push pass with uploaded, skipped and failed
\* outcomes and as many samples as uploads.
C18_Witness ==
    /\ pc = "done" /\ mode = "push"
    /\ transferred > 0 /\ skipped > 0 /\ failed > 0
    /\ \A w \in DOMAIN samples : Len(samples[w]) = transferred

\* ---- the order of aggregation in the pool (Spec) --------------------------

ConsumedNow(i) ==
    /\ i \in DOMAIN tasks'
    /\ tasks[i].state # "consumed"
    /\ tasks'[i].state = "consumed"

\* C11 as stated: with workers > 1 an outcome is consumed only after its task
\* has completed, and outcomes are consumed in completion order: the one
\* consumed is the earliest completed among those not yet consumed.
C11_CompletionOrder ==
    [][workers > 1 =>
          \A i \in DOMAIN tasks :
              ConsumedNow(i) => (tasks[i].state = "done" /\ i = Head(completed))]_vars

\* C11 amended: with workers > 1 an outcome is consumed only after its task
\* has completed; the outcomes of the tasks that had already completed when
\* the aggregation loop was entered are consumed first, in no particular
\* order, and the others after them in completion order.
C11_CompletedBeforeConsumed ==
    [][workers > 1 =>
          \A i \in DOMAIN tasks :
              ConsumedNow(i) =>
                  /\ tasks[i].state = "done"
                  /\ IF early # {} THEN i \in early ELSE i = Head(completed)]_vars

\* C11 witness: the second task submitted has been consumed while the first
\* is still running: consumed after completion, out of submission order.
C11_Witness ==
    /\ workers > 1
    /\ Len(pending) >= 2
    /\ tasks[2].state = "consumed"
    /\ tasks[1].state = "running"

\* ---- who updates the counters (Spec) ----------------------------------------

\* C22: in the pool loop the counters and the ETA windows are written only by
\* the orchestrator when it consumes an outcome: a step in which they change
\* consumes exactly one outcome and applies exactly that outcome's update to
\* the values they held, a step of a worker (a task starting or finishing)
\* leaves them as they were, and so no update is lost or duplicated: the
\* counters always equal what the outcomes consumed so far add up to.
C22_CountersByOrchestratorOnly ==
    /\ [][(workers > 1 /\ pc \in {"pool", "collect"}) =>
            /\ counterVars' # counterVars =>
                  \E i \in DOMAIN tasks :
                      /\ ConsumedNow(i)
                      /\ \A j \in DOMAIN tasks : ConsumedNow(j) => j = i
                      /\ Counters' = Aggregate(Counters, tasks[i].status,
                                               tasks[i].elapsed)
            /\ (\E i \in DOMAIN tasks :
                    /\ i \in DOMAIN tasks'
                    /\ tasks'[i].state # tasks[i].state
                    /\ tasks'[i].state \in {"running", "done"})
                  => counterVars' = counterVars]_vars
    /\ [](workers > 1 =>
            LET got(st) == {i \in DOMAIN tasks :
                               tasks[i].state = "consumed" /\ tasks[i].status \in st}
            IN  /\ processed = Cardinality(got({"failed", "skipped"} \cup Transferring))
                /\ failed = Cardinality(got({"failed"}))
                /\ transferred = Cardinality(got(Transferring))
                /\ \A w \in DOMAIN samples : Len(samples[w]) = transferred)

\* C22 witness: in a pool of two workers one outcome has been counted while
\* another task has finished and a third is still running.
C22_Witness ==
    /\ workers > 1
    /\ pc = "collect"
    /\ processed = 1
    /\ InFlight # {}
    /\ \E i \in DOMAIN tasks : tasks[i].state = "done"

\* ---- the summary does not depend on the order (Spec) ------------------------

\* The counters the pass enters its transfer loop with: the pull pass has
\* counted its skips in the diff, the push pass starts from zero.
LoopStart ==
    [processed |-> 0,
     skipped |-> IF mode = "pull"
                   THEN Cardinality({k \in Keys : decided[k] = "skip"})
                   ELSE 0,
     failed |-> 0, transferred |-> 0, samples |-> EmptySamples]

\* What the sequential loop (workers = 1) leaves in the counters when the
\* tasks end with the outcomes of ts: it aggregates them in submission order.
RECURSIVE SequentialRun(_, _, _)
SequentialRun(ts, c, at) ==
    IF at \notin DOMAIN ts THEN c
    ELSE SequentialRun(ts, Aggregate(c, ts[at].status, ts[at].elapsed),
                       NextCursor(at))

Summary(c) ==
    [processed |-> c.processed, transferred |-> c.transferred,
     skipped |-> c.skipped, failed |-> c.failed]

\* C23: the counts a pass ends with do not depend on the order in which the
\* tasks complete: whatever the number of workers and the interleaving, they
\* are the counts the sequential run ends with for the same tasks and the
\* same outcome per task.
C23_SummaryOrderIndependent ==
    (pc = "done" /\ tasks # <<>>) =>
        Summary(Counters) = Summary(SequentialRun(tasks, LoopStart, 1))

\* C23 witness: a pass of two workers over as many tasks as there are keys
\* has ended with transferred and failed outcomes.
C23_Witness ==
    /\ workers > 1
    /\ pc = "done"
    /\ Len(pending) = NumKeys
    /\ failed > 0
    /\ transferred > 0

\* ---- the parent directory of a download (SpecMkdir) -------------------------

\* C24: the parent directory of the destination exists before every download
\* (a task that has run without a mkdir error ran with the directory in
\* place), and workers creating the same directory concurrently do not fail:
\* no mkdir call ends in an exception, so no outcome is a failure caused by
\* the directory existing already.
C24_ParentEnsured ==
    /\ \A i \in DOMAIN tasks :
          /\ mk[i].at = "made" => "inner" \in dirs
          /\ mk[i].at # "raised"
          /\ tasks[i].state \in {"done", "consumed"} =>
                /\ mk[i].at = "made"
                /\ tasks[i].raised \notin {"FileExistsError", "FileNotFoundError"}
                /\ tasks[i].status = "failed" => tasks[i].raised \in Excs
    /\ "inner" \in dirs => "outer" \in dirs

\* C24 witness: two downloads of a pool ended as downloaded although each
\* found, between two calls of its own mkdir, a directory that another thread
\* had just created.
C24_Witness ==
    /\ workers > 1
    /\ \E i, j \in DOMAIN tasks :
          /\ i # j
          /\ mk[i].raced /\ mk[j].raced
          /\ tasks[i].status = "downloaded"
          /\ tasks[j].status = "downloaded"

\* ---- the status lines (SpecLog) ----------------------------------------------

\* C25: an iteration logs a status line exactly when the processed count it
\* reaches is a multiple of 200 or the number of items of the loop, and the
\* line shows that count; so the last iteration of a loop always logs one,
\* with nothing remaining (and an ETA of "0s").
C25_StatusLineWhenDue ==
    /\ [][processed' = processed + 1 =>
            /\ statusLine' # None <=>
                  (processed' % 200 = 0 \/ processed' = Len(pending))
            /\ statusLine' # None =>
                  /\ statusLine'[1].processed = processed'
                  /\ statusLine'[1].of = Len(pending)
                  /\ statusLine'[1].remaining = Len(pending) - processed']_vars
    /\ []((pc = "done" /\ processed >= 1) =>
            /\ statusLine # None
            /\ statusLine[1].processed = Len(pending)
            /\ statusLine[1].remaining = 0
            /\ statusLine[1].eta.text = "0s")

\* C25 witness: a line was logged at 200 items with more than 200 still to
\* come, after an iteration that logged none.
C25_Witness ==
    /\ processed = 200
    /\ Len(pending) = MaxItems
    /\ statusLine # None
    /\ statusLine[1].remaining = MaxItems - 200

\* ---- the partition before the transfers (Spec) --------------------------------

\* The items a pass has enumerated: the objects kept from the listing, the
\* files found by the scan.
Items == IF mode = "pull" THEN SeqToSet(objects) ELSE SeqToSet(pending)

Started == {i \in DOMAIN tasks : tasks[i].state # "queued"}

\* The partition is made before any transfer starts: once a task has started
\* every enumerated item is decided and the skips are counted; and a pass
\* with items of which none is to be transferred logs "up to date" and ends
\* without having handed a task to a loop.
PartitionedFirst ==
    /\ Started # {} =>
          /\ \A k \in Items : decided[k] \in {"transfer", "skip"}
          /\ skipped = Cardinality({k \in Items : decided[k] = "skip"})
    /\ (pc = "done" /\ Items # {} /\ \A k \in Items : decided[k] = "skip") =>
          /\ notice = "up to date"
          /\ tasks = <<>>
          /\ processed = 0

\* C26 as stated: in the pull and in the push pass alike, the partition
\* into pending and skipped comes before any transfer, and an empty pending
\* set ends the pass with "up to date" and no task.
C26_PartitionBothPasses == PartitionedFirst

\* C26 amended: the pull pass partitions before any transfer and ends with
\* "up to date" and no task when nothing is pending. The push pass makes no
\* partition: it hands every scanned file to its loop, each file is decided
\* by its own task (a file up to date is a task with the outcome skipped,
\* counted when it is aggregated), and it ends early only when the scan
\* finds no file, logging that no files were found.
C26_PartitionPullOnly ==
    /\ mode = "pull" => PartitionedFirst
    /\ (mode = "pull" /\ pending = <<>> /\ pc \notin {"start", "diff", "aborted"}) =>
          /\ pc = "done"
          /\ tasks = <<>>
          /\ notice = IF total = 0 THEN "no objects" ELSE "up to date"
    /\ (mode = "push" /\ pc # "start") =>
          /\ Len(tasks) = total
          /\ notice = IF total = 0 THEN "no files" ELSE "files to scan"
          /\ skipped = Cardinality({i \in Yielded : tasks[i].status = "skipped"})
          /\ \A i \in DOMAIN tasks :
                tasks[i].state = "queued" => decided[pending[i]] = "none"
          /\ pc = "done" => \A i \in DOMAIN tasks : tasks[i].runs = 1

\* C26 witness: a pull pass over listed objects that are all up to date has
\* ended with every object skipped, "up to date" logged and no task.
C26_Witness ==
    /\ mode = "pull"
    /\ pc = "done"
    /\ total = NumKeys
    /\ skipped = NumKeys
    /\ notice = "up to date"
    /\ tasks = <<>>

\* ---- a failed head call (SpecTwice) -------------------------------------------

\* C27: in the push pass a file whose head call failed, for whatever reason,
\* is handled as a file without remote metadata: it is decided for upload and
\* upload_file is called. Its outcome is never skipped, and it is failed only
\* when the upload itself raised; otherwise it is uploaded.
C27_HeadFailureUploads ==
    mode = "push" =>
        \A i \in DOMAIN tasks :
            (tasks[i].runs = 1 /\ tasks[i].headFailed) =>
                /\ decided[pending[i]] = "transfer"
                /\ tasks[i].status # "skipped"
                /\ tasks[i].status = "failed" => tasks[i].raised \in Excs
                /\ tasks[i].raised = NoExc =>
                      /\ tasks[i].status = "uploaded"
                      /\ remoteObjs[pending[i]].exists
                      /\ remoteObjs[pending[i]].size = localFiles[pending[i]].size

\* C27 witness: in a second pass, over files the first pass left up to date,
\* the head call of a file failed and the file was uploaded again.
C27_Witness ==
    /\ mode = "push"
    /\ pass = "second"
    /\ prevSummary # None /\ prevSummary[1].failed = 0
    /\ \E i \in DOMAIN tasks :
          /\ tasks[i].headFailed
          /\ tasks[i].status = "uploaded"

\* ---- termination of the transfer loop (SpecLive) ---------------------------

InLoop == pc \in {"seq", "pool", "collect"}

\* C16: every transfer call returning or raising, a pass that has tasks
\* terminates: eventually every task has an outcome that was aggregated,
\* processed equals the number of tasks and the pass returns normally,
\* failed outcomes or not.
C16_PassTerminates ==
    InLoop ~>
        ( /\ pc = "done"
          /\ processed = Len(pending)
          /\ \A i \in DOMAIN pending :
                /\ tasks[i].state = "consumed"
                /\ tasks[i].status \in Transferring \cup {"skipped", "failed"} )

\* C16 witness: a pool pass has returned with every task aggregated, some of
\* them failed.
C16_Witness ==
    /\ pc = "done"
    /\ workers > 1
    /\ Len(pending) >= 2
    /\ processed = Len(pending)
    /\ failed > 0 /\ transferred > 0

\* ---- filesystem failures of one item (SpecStat) ----------------------------

\* C12: a directory-creation failure or a local stat failure met while one
\* item is processed gives that item a failed outcome and leaves the pass
\* running: the pass is never aborted, a task whose mkdir or stat raised ends
\* failed, and at the end every item has been handled, in both directions.
C12_FsFailureIsolated ==
    /\ pc # "aborted"
    /\ \A i \in Finished : tasks[i].raised # NoExc => tasks[i].status = "failed"
    /\ pc = "done" =>
          /\ AllConsumed(tasks)
          /\ mode = "pull" => skipped + Len(pending) = total
          /\ mode = "push" => Len(pending) = total

\* ---- the remote listing (SpecList, SpecListLive) ---------------------------

ListingFailed == failPage \in SeqToSet(requests)
ListingOver == pc \notin {"start", "aborted"}

\* The items of the first n pages, in order.
RECURSIVE PagesContents(_)
PagesContents(n) ==
    IF n = 0 THEN <<>> ELSE PagesContents(n - 1) \o pages[n].Contents

\* Page n is the first that is not truncated and every page before it names
\* its successor as the continuation.
EndsAt(n) ==
    /\ n \in DOMAIN pages
    /\ ~pages[n].IsTruncated
    /\ \A i \in 1..(n - 1) :
          /\ pages[i].IsTruncated
          /\ pages[i].NextContinuationToken = Some(i + 1)

\* C13: when a listing request fails, at whatever page, the pull pass is
\* aborted and the request is not made again: no diff decision exists, no
\* download task is created or run, no counter moved and the local files are
\* as they were.
C13_ListingFailureAborts ==
    ListingFailed =>
        /\ pc = "aborted"
        /\ requests[Len(requests)] = failPage
        /\ \A i \in 1..(Len(requests) - 1) : requests[i] # failPage
        /\ decided = [k \in Keys |-> "none"]
        /\ pending = <<>> /\ tasks = <<>>
        /\ processed = 0 /\ skipped = 0 /\ transferred = 0 /\ failed = 0
        /\ localFiles = ListLocalFiles

\* C13 witness: the request for the second page failed after the first page
\* had given objects that need a download.
C13_Witness ==
    /\ ListingFailed
    /\ requests = <<1, 2>>
    /\ \E i \in DOMAIN objects : WantDownload(objects[i])
    /\ pc = "aborted"

\* C14 as stated: whatever the store answers, the listing terminates, no
\* object is ever yielded twice, and when the listing is over every object
\* of every page answered has been yielded.
C14_ListingFinite ==
    /\ <>(pc # "start")
    /\ [](\A i, j \in DOMAIN objects : objects[i] = objects[j] => i = j)
    /\ [](ListingOver =>
            \E n \in DOMAIN pages :
                objects = SelectSeq(PagesContents(n), KeepObject))

\* C14 amended: if the answers reach a page that is not truncated through
\* truncated pages that each carry the continuation token of the next page,
\* and no request fails, the listing terminates after that page, having
\* requested each page once and yielded every object of these pages exactly
\* once, in order.
C14_ListingFiniteWhenEnds ==
    \A n \in 1..MaxPages :
        (EndsAt(n) /\ failPage \notin 1..n) =>
            <>( /\ ListingOver
                /\ requests = [i \in 1..n |-> i]
                /\ objects = SelectSeq(PagesContents(n), KeepObject) )

\* C14 witness: a listing of two non-empty pages has been followed to its end.
C14_Witness ==
    /\ ListingOver
    /\ EndsAt(MaxPages)
    /\ \A i \in DOMAIN pages : pages[i].Contents # <<>>
    /\ requests = [i \in 1..MaxPages |-> i]
    /\ Len(objects) >= 2

\* C15: a key ending in "/" is left out of a pull pass altogether: it is not
\* among the objects considered, is never pending, never decided on (neither
\* skipped nor transferred) and nothing is written for it; the objects
\* considered are counted without it.
C15_PseudoDirExcluded ==
    /\ \A k \in dirKeys :
          /\ \A i \in DOMAIN objects : objects[i] # k
          /\ \A i \in DOMAIN pending : pending[i] # k
          /\ decided[k] = "none"
          /\ localFiles[k] = ListLocalFiles[k]
    /\ \A n \in DOMAIN pages :
          (ListingOver /\ requests = [i \in 1..n |-> i]) =>
              /\ total = Cardinality(SeqToSet(PagesContents(n)) \ dirKeys)
              /\ pc = "done" => skipped + Len(pending) = total

\* C15 witness: the listing holds an object without local file, an object
\* that is up to date and a pseudo-directory key: all but the last are
\* considered, the first is pending and downloaded, the second skipped.
C15_Witness ==
    /\ pc = "done"
    /\ dirKeys = {3}
    /\ total = NumKeys - 1
    /\ pending = <<1>>
    /\ skipped = NumKeys - 2
    /\ tasks[1].status = "downloaded"

\* ---- the rolling tracker (SpecEta) -----------------------------------------

Min(a, b) == IF a <= b THEN a ELSE b
NonEmptyWindows == {w \in DOMAIN samples : samples[w] # <<>>}

\* C17: after any sequence of add() calls each window w holds exactly the
\* most recent min(n, w) durations added, in arrival order; it never holds
\* more than w and it is the oldest sample that is evicted.
C17_WindowsHoldMostRecent ==
    \A w \in DOMAIN samples :
        LET n == Len(etaAdded)
            m == Min(n, w)
        IN  /\ Len(samples[w]) <= w
            /\ samples[w] = SubSeq(etaAdded, n - m + 1, n)

\* C17 witness: a window of 2 after more than 2 adds, the evicted duration
\* differing from the newest one.
C17_Witness ==
    /\ pc = "tracker"
    /\ 2 \in DOMAIN samples
    /\ Len(etaAdded) > 2
    /\ etaAdded[1] # etaAdded[Len(etaAdded)]
    /\ samples[2] = << etaAdded[Len(etaAdded) - 1], etaAdded[Len(etaAdded)] >>

\* C19: format(remaining) is "0s" whenever remaining <= 0; it is "n/a" when
\* remaining > 0 and no window has a sample; otherwise it has one entry for
\* each window that has samples, carrying that window's sample count, and
\* none for an empty window.
C19_FormatCases ==
    etaOut # None =>
        LET r == etaOut[1].remaining
            out == etaOut[1].out
        IN  /\ r <= 0 => (out.text = "0s" /\ out.parts = <<>>)
            /\ (r > 0 /\ NonEmptyWindows = {}) =>
                  (out.text = "n/a" /\ out.parts = <<>>)
            /\ (r > 0 /\ NonEmptyWindows # {}) =>
                  /\ out.text \notin {"0s", "n/a"}
                  /\ Len(out.parts) = Cardinality(NonEmptyWindows)
                  /\ \A w \in NonEmptyWindows :
                        \E i \in DOMAIN out.parts :
                            /\ out.parts[i].window = w
                            /\ out.parts[i].n = Len(samples[w])

\* C19 witness: a tracker with an empty and a non-empty window formats a
\* positive remaining count: one entry, for the non-empty window.
C19_Witness ==
    /\ etaOut # None
    /\ etaOut[1].remaining > 0
    /\ NonEmptyWindows # {}
    /\ NonEmptyWindows # DOMAIN samples
    /\ Len(etaOut[1].out.parts) = Cardinality(NonEmptyWindows)

\* ---- the worker count (SpecMain) -------------------------------------------

\* C20: a worker count of 0 or less, asked for on the command line or through
\* the environment, is 1 by the time the pass starts, and the pass runs the
\* tasks one at a time in submission order, without the pool.
C20_WorkersFloor ==
    (Wanted(requested) <= 0 /\ pc # "main") =>
        /\ workers = 1
        /\ pc \notin {"pool", "collect"}
        /\ Cardinality(InFlight) <= 1
        /\ \A i \in DOMAIN tasks :
              (i + 1 \in DOMAIN tasks /\ tasks[i + 1].state # "queued") =>
                  tasks[i].state = "consumed"

\* C20 witness: --workers -1, and the pass has handled two tasks or more.
C20_Witness ==
    /\ requested.arg # None
    /\ Wanted(requested) < 0
    /\ pc = "done"
    /\ workers = 1
    /\ Len(pending) >= 2
    /\ processed = Len(pending)

\* ---- C21: a run without configuration ---------------------------------------

Absent == Required \ Resolved(settings)

Enumerated == requests # <<>> \/ objects # <<>> \/ total # 0 \/ tasks # <<>>

\* C21: when bucket, endpoint, access key or secret key is absent from the
\* resolved configuration, the run fails before any enumeration or store
\* I/O, with a diagnostic that names the absent parameter(s).
C21_MissingConfigNamed ==
    (Absent # {} /\ pc # "main")
        => /\ pc = "fatal"
           /\ ~Enumerated
           /\ diag # None
           /\ diag[1].names = Absent

\* What the code does keep of C21: without one of the four the run ends in
\* main, before any enumeration, with some diagnostic.
C21_MissingConfigFatal ==
    (Absent # {} /\ pc # "main")
        => pc = "fatal" /\ ~Enumerated /\ diag # None

\* ---- the watchdog (SpecWatchdog) ----------------------------------------------

Polled == poll # None
Active == poll[1].counts.running + poll[1].counts.queued + poll[1].counts.paused
Completed == Polled /\ poll[1].error \notin {"read", "config"}

\* C28: a poll whose configuration has enabled false asks for no termination
\* and, when it gets as far as the enabled test, leaves both timers None; so
\* the time a termination is based on never starts before the last poll
\* that had enabled false.
C28_DisabledResets ==
    /\ (Polled /\ ~poll[1].enabled) =>
          /\ poll[1].ask = "none"
          /\ Completed => (idle_since = None /\ empty_queue_since = None)
    /\ (Polled /\ poll[1].ask = "idle" /\ disabledAt # None) =>
          idle_since[1] > disabledAt[1]
    /\ (Polled /\ poll[1].ask = "queue" /\ disabledAt # None) =>
          empty_queue_since[1] > disabledAt[1]

\* C29: an idle termination is asked for only at a poll with enabled and
\* idle_enabled true and now - idle_since >= idle_seconds, idle_since being
\* the time of the first poll of the current unbroken run of enabled polls
\* that saw no experiment and an inactive GPU; an enabled poll that sees an
\* experiment or an active GPU leaves idle_since None.
C29_IdleTermination ==
    /\ (Polled /\ poll[1].ask = "idle") =>
          /\ poll[1].enabled /\ poll[1].idle_enabled
          /\ idle_since # None
          /\ poll[1].t - idle_since[1] >= IdleSeconds(limits)
          /\ idle_since = idleRun
    /\ (Completed /\ poll[1].enabled /\ (Active > 0 \/ poll[1].gpu_active)) =>
          idle_since = None

\* C30: at a poll with enabled and queue_empty_enabled true that sees no
\* experiment, termination is asked for exactly when the current unbroken
\* run of such polls began at least empty_queue_grace_seconds ago, whatever
\* the GPU does and whether or not the idle test would pass; a poll that sees
\* an experiment, or has queue_empty_enabled false, leaves empty_queue_since
\* None.
C30_QueueTermination ==
    /\ (Completed /\ poll[1].enabled /\ poll[1].queue_enabled /\ Active = 0) =>
          /\ emptyRun # None
          /\ poll[1].ask = "queue" <=>
                poll[1].t - emptyRun[1] >= EmptyQueueGrace(limits)
    /\ (Polled /\ poll[1].ask = "queue") =>
          (Completed /\ poll[1].enabled /\ poll[1].queue_enabled /\ Active = 0)
    /\ (Completed /\ (Active > 0 \/ ~poll[1].queue_enabled)) =>
          empty_queue_since = None

\* The step is a poll that raised an error the loop handles.
HandledError == now' # now /\ poll'[1].error \in {"read", "round"}

\* After a handled error the loop polls again, and the timers are the ones
\* the poll held when the error was raised: unchanged when the reads failed,
\* as updated by this poll when the termination round failed.
ErrorKeepsTimers ==
    HandledError =>
        /\ pc' = "poll"
        /\ poll'[1].error = "read" =>
              /\ idle_since' = idle_since
              /\ empty_queue_since' = empty_queue_since
              /\ round' = None
        /\ poll'[1].error = "round" =>
              /\ idle_since' =
                    IdleSince(idle_since, poll'[1].counts, poll'[1].gpu_active, now')
              /\ empty_queue_since' =
                    EmptyQueueSince(empty_queue_since,
                                    [queue_enabled |-> poll'[1].queue_enabled],
                                    poll'[1].counts, now')
              /\ round' # None /\ round'[1].outcome # "returned"

\* The loop is left only by a termination round that returned normally.
EndsByRound ==
    pc' # "poll" =>
        /\ pc' = "exit"
        /\ round' # None /\ round'[1].outcome = "returned"
        /\ round'[1].sent = round'[1].targets

\* Once the loop has been left nothing is polled or requested.
NothingAfterEnd == pc # "poll" => UNCHANGED << poll, round, now >>

\* The part of C31 that holds: handled errors keep the loop polling with
\* its timers, and a loop that has ended does nothing more.
C31_HandledErrorsPollAgain == [][ErrorKeepsTimers /\ NothingAfterEnd]_vars

\* C31: the polling loop ends only when a termination round returns
\* normally, after which no further poll or termination request is made; a
\* poll that raises a handled error, a failed termination request included,
\* is followed by another poll with idle_since and empty_queue_since
\* retained.
C31_LoopEndsAfterRound ==
    [][EndsByRound /\ NothingAfterEnd /\ ErrorKeepsTimers]_vars

\* ---- the termination round (SpecTerminate) ------------------------------------

\* The ids of the listed pods that have one, in list order.
RECURSIVE WithId(_)
WithId(ps) ==
    IF ps = <<>> THEN <<>>
    ELSE (IF Truthy(Head(ps).id) THEN <<Head(ps).id>> ELSE <<>>) \o WithId(Tail(ps))

\* C32: in a round that received the listing, an empty listing means no
\* target and no request; otherwise the target is RUNPOD_POD_ID alone when
\* it is set (to a non-empty value), else with terminate_all the ids of the
\* listed pods that have one, else the id of the first listed pod alone.
\* The requests sent are the targets in list order, one each: all of them
\* when the round returns, those up to the request that raised otherwise.
C32_TerminationTargets ==
    (round # None /\ round[1].outcome # "list_failed") =>
        LET r == round[1]
            byEnv == Truthy(env_pod_id)
        IN  /\ pods = <<>> => (r.targets = <<>> /\ r.sent = <<>>)
            /\ (pods # <<>> /\ byEnv) => r.targets = <<env_pod_id>>
            /\ (pods # <<>> /\ ~byEnv /\ r.terminate_all) => r.targets = WithId(pods)
            /\ (pods # <<>> /\ ~byEnv /\ ~r.terminate_all) => r.targets = <<pods[1].id>>
            /\ Len(r.sent) <= Len(r.targets)
            /\ r.sent = SubSeq(r.targets, 1, Len(r.sent))
            /\ r.outcome = "returned" => r.sent = r.targets
            /\ r.outcome = "request_failed" => r.sent # <<>>

\* A round with terminate_all and no RUNPOD_POD_ID has returned after sending
\* a request for the one pod with an id out of the several listed.
C32_Witness ==
    /\ round # None
    /\ round[1].outcome = "returned"
    /\ round[1].terminate_all
    /\ ~Truthy(env_pod_id)
    /\ Len(pods) > 1
    /\ Len(round[1].sent) = 1

\* ---- two passes in a row (SpecTwice) ----------------------------------------

HeadFailures == {i \in Finished : tasks[i].headFailed}

====
